---- MODULE Spec2Model ----
(***************************************************************************)
(* Model of the audio post-processing chain of the Scripture Soaking       *)
(* Factory: DSPEngine (src/modules/dsp_engine.py) and the part of          *)
(* run_pipeline (src/main.py) that drives it.                              *)
(*                                                                         *)
(* An AudioSegment is modelled by its metadata                             *)
(*   [frames, sample_width, channels, frame_rate]                          *)
(* as pydub keeps it (frames = len(_data) // frame_width).  Sample values  *)
(* are carried where the code's effect on them is exact (stereo_widen,     *)
(* add_reverb with wet_mix = 0, master_limiter on a silent buffer); the    *)
(* filters' numeric output is not modelled.                                *)
(*                                                                         *)
(* Two specifications:                                                     *)
(*   Spec    run_pipeline from Stage 3 on: process_chain over the clip     *)
(*           list, export, video assembly, metadata, and the handler.      *)
(*   SpecFn  one DSPEngine stage applied to one input buffer.              *)
(***************************************************************************)
EXTENDS Integers, Sequences, FiniteSets, TLC

VARIABLES
  vocal_paths,   \* the clip files handed to process_chain, in script order
  pc,            \* position in run_pipeline / process_chain
  idx,           \* 1-based position of `path` in vocal_paths
  vocal,         \* process_chain's local `vocal`
  combined,      \* process_chain's local `combined` (the Program)
  trace,         \* history: the stage calls made so far, in call order
  raised,        \* the exception in flight or caught, NotRaised if none
  report,        \* what run_pipeline's handler logged
  artifacts,     \* outputs written by run_pipeline
  arg,           \* SpecFn: the stage's input
  op,            \* SpecFn: the stage applied, "none" before
  ret            \* SpecFn: the stage's result

vars == <<vocal_paths, pc, idx, vocal, combined, trace, raised, report,
          artifacts, arg, op, ret>>

chainVars == <<vocal_paths, pc, idx, vocal, combined, trace, raised, report,
               artifacts>>
fnVars == <<arg, op, ret>>

----------------------------------------------------------------------------
(* Bounds of the model *)

MaxClips == 3
MaxSamples == 6

----------------------------------------------------------------------------
(* Program constants *)

DefaultSampleRate == 48000      \* DSPEngine.__init__ default
GapMs == 2000                   \* silent(duration=2000) in process_chain
DefaultDelayMs == 15            \* stereo_widen default delay_ms
SilentDefaultRate == 11025      \* pydub AudioSegment.silent default
SilentSampleWidth == 2          \* pydub AudioSegment.silent writes b"\0\0"
BandLowHz == 4000
BandHighHz == 8000
FilterPadLen == 27              \* filtfilt: 3 * max(len(a), len(b)), order-4 band

----------------------------------------------------------------------------
(* Arithmetic helpers *)

Min(a, b) == IF a < b THEN a ELSE b
Max(a, b) == IF a > b THEN a ELSE b

RECURSIVE GCD(_, _)
GCD(a, b) == IF b = 0 THEN a ELSE GCD(b, a % b)

\* Python 3 round() of the rational num/den (den > 0): half to even.
RoundHalfEven(num, den) ==
  LET q == num \div den
      r == num % den
  IN  IF 2 * r > den THEN q + 1
      ELSE IF 2 * r < den THEN q
      ELSE IF q % 2 = 0 THEN q ELSE q + 1

----------------------------------------------------------------------------
(* pydub.AudioSegment, as far as DSPEngine uses it *)

Seg(n, sw, ch, rate) ==
  [frames |-> n, sample_width |-> sw, channels |-> ch, frame_rate |-> rate]

\* AudioSegment.empty()
EmptySeg == Seg(0, 1, 1, 1)

\* len(seg): round(1000 * frame_count / frame_rate), in milliseconds
LenMs(seg) ==
  (seg.frames \div seg.frame_rate) * 1000
    + RoundHalfEven(1000 * (seg.frames % seg.frame_rate), seg.frame_rate)

\* _parse_position(ms): int(ms * (frame_rate / 1000.0))
ParsePosition(seg, ms) ==
  ms * (seg.frame_rate \div 1000) + (ms * (seg.frame_rate % 1000)) \div 1000

\* AudioSegment.silent(duration, frame_rate)
Silent(duration, rate) ==
  Seg((rate * duration) \div 1000, SilentSampleWidth, 1, rate)

\* audioop.ratecv: number of output frames for n input frames
RatecvFrames(n, inrate, outrate) ==
  LET g == GCD(inrate, outrate)
      i == inrate \div g
      o == outrate \div g
  IN  IF n = 0 THEN 0 ELSE ((n - 1) * o) \div i + 1

SetFrameRate(seg, rate) ==
  IF rate = seg.frame_rate THEN seg
  ELSE Seg(RatecvFrames(seg.frames, seg.frame_rate, rate),
           seg.sample_width, seg.channels, rate)

SetChannels(seg, ch) == Seg(seg.frames, seg.sample_width, ch, seg.frame_rate)

SetSampleWidth(seg, sw) == Seg(seg.frames, sw, seg.channels, seg.frame_rate)

\* AudioSegment._sync applied to one member of the pair (a, b)
SyncTo(seg, a, b) ==
  SetSampleWidth(
    SetFrameRate(SetChannels(seg, Max(a.channels, b.channels)),
                 Max(a.frame_rate, b.frame_rate)),
    Max(a.sample_width, b.sample_width))

\* a + b: append with crossfade 0
Concat(a, b) ==
  LET s1 == SyncTo(a, a, b)
      s2 == SyncTo(b, a, b)
  IN  Seg(s1.frames + s2.frames, s1.sample_width, s1.channels, s1.frame_rate)

\* seg[:ms]: the slice is cut at int(ms * rate / 1000) frames and the few
\* missing frames, if any, are filled with silence made from the first frame
SliceTo(seg, ms) ==
  LET want == ParsePosition(seg, Min(ms, LenMs(seg)))
      have == Min(want, seg.frames)
  IN  Seg(IF have = 0 THEN 0 ELSE want,
          seg.sample_width, seg.channels, seg.frame_rate)

\* len(seg.get_array_of_samples())
SampleCount(seg) == seg.frames * seg.channels

----------------------------------------------------------------------------
(* Results of a stage: a buffer, or the exception that left the stage *)

NoSeg == Seg(0, 0, 0, 0)
NoExc == [type |-> "none", origin |-> "none"]
NotRaised == [type |-> "none", origin |-> "none", frame |-> "none"]

Ok(seg) == [ok |-> TRUE, seg |-> seg, exc |-> NoExc]
Err(type, origin) ==
  [ok |-> FALSE, seg |-> NoSeg, exc |-> [type |-> type, origin |-> origin]]

----------------------------------------------------------------------------
(* DSPEngine *)

Int32Bytes == 4

\* _to_numpy: one float per sample of the segment
to_numpy(audio) == SampleCount(audio)

\* _to_audio_segment: n values are cast to int32 and their bytes are wrapped
\* as a mono segment of the ORIGINAL sample width at the engine's rate
to_audio_segment(n, original_audio, sample_rate) ==
  Seg((Int32Bytes * n) \div original_audio.sample_width,
      original_audio.sample_width, 1, sample_rate)

\* int(len(data) * target_sr / sample_rate), target_sr = sample_rate*(432/440).
\* The floating-point value equals the exact floor for every length used
\* here (first difference: length 495 at sample_rate 8000 or 16000).
NumSamples(len, sample_rate) == (len * 432) \div 440

\* scipy.signal.resample raises ValueError on an empty input (rfft of zero
\* points) and on num_samples = 0 (irfft to zero points).
pitch_shift_432hz(sample_rate, audio) ==
  LET len == to_numpy(audio)
      num_samples == NumSamples(len, sample_rate)
  IN  IF len = 0 \/ num_samples = 0
      THEN Err("ValueError", "resample")
      ELSE Ok(SetFrameRate(to_audio_segment(num_samples, audio, sample_rate),
                           sample_rate))

\* Variant: an upper edge exactly at Nyquist is accepted
BandAcceptedInclusive(sample_rate) ==
  /\ 0 < 2 * BandLowHz
  /\ 2 * BandLowHz < sample_rate
  /\ 0 < 2 * BandHighHz
  /\ 2 * BandHighHz <= sample_rate

\* butter(4, [low, high], btype='band') demands 0 < Wn < 1 for both edges,
\* Wn = Hz / (sample_rate / 2)
BandAccepted(sample_rate) ==
  /\ 0 < 2 * BandLowHz
  /\ 2 * BandLowHz < sample_rate
  /\ 0 < 2 * BandHighHz
  /\ 2 * BandHighHz < sample_rate

\* filtfilt demands more than padlen samples
apply_deesser(sample_rate, audio) ==
  LET len == to_numpy(audio)
  IN  IF ~BandAccepted(sample_rate) THEN Err("ValueError", "butter")
      ELSE IF len <= FilterPadLen THEN Err("ValueError", "filtfilt")
      ELSE Ok(to_audio_segment(len, audio, sample_rate))

\* fftconvolve(...)[:len(data)] and the mix keep the length
add_reverb(sample_rate, audio) ==
  Ok(to_audio_segment(to_numpy(audio), audio, sample_rate))

\* right = (silent(delay_ms) + audio)[:len(audio)]
WidenRight(audio, delay_ms) ==
  SliceTo(Concat(Silent(delay_ms, audio.frame_rate), audio), LenMs(audio))

\* min(len(l_samples), len(r_samples))
WidenMinLen(audio, delay_ms) ==
  Min(SampleCount(audio), SampleCount(WidenRight(audio, delay_ms)))

\* 2 * min_len samples of the input's width, declared as 2 channels
stereo_widen(audio, delay_ms) ==
  Ok(Seg(WidenMinLen(audio, delay_ms), audio.sample_width, 2,
         audio.frame_rate))

\* audio.normalize(headroom=0.1) keeps the format and the length
master_limiter(audio) == Ok(audio)

----------------------------------------------------------------------------
(* Clip files *)

WavFile(ok, n, sw, ch, rate) ==
  [decodable |-> ok, frames |-> n, sample_width |-> sw, channels |-> ch,
   frame_rate |-> rate]

\* The clips a run may be given.  The synthesizer writes 48 kHz 24-bit mono
\* WAV (vocal_synthesizer.py:90); cached files may be anything.
ClipFiles ==
  { WavFile(TRUE, 480000, 3, 1, 48000),    \* 10 s
    WavFile(TRUE, 384000, 3, 1, 48000),    \*  8 s
    WavFile(TRUE, 576000, 3, 1, 48000),    \* 12 s
    WavFile(TRUE, 48010, 2, 1, 48000),     \* 16-bit, just over 1 s
    WavFile(TRUE, 20, 3, 1, 48000),        \* shorter than the filter pad
    WavFile(TRUE, 0, 3, 1, 48000),         \* no samples
    WavFile(FALSE, 0, 0, 0, 0) }           \* not a readable WAV

\* AudioSegment.from_wav: 24-bit data is widened to 32-bit on load
from_wav(file) ==
  IF ~file.decodable THEN Err("CouldntDecodeError", "from_wav")
  ELSE Ok(Seg(file.frames,
              IF file.sample_width = 3 THEN 4 ELSE file.sample_width,
              file.channels, file.frame_rate))

----------------------------------------------------------------------------
(* process_chain and run_pipeline *)

Stages == <<"from_wav", "pitch_shift_432hz", "apply_deesser", "add_reverb",
            "stereo_widen", "append">>

\* Variant: reverb called before the de-esser
NextStageReordered(s) ==
  CASE s = "from_wav"          -> "pitch_shift_432hz"
    [] s = "pitch_shift_432hz" -> "add_reverb"
    [] s = "add_reverb"        -> "apply_deesser"
    [] s = "apply_deesser"     -> "stereo_widen"
    [] s = "stereo_widen"      -> "append"

\* The statements of the loop body, in program order
NextStage(s) ==
  CASE s = "from_wav"          -> "pitch_shift_432hz"
    [] s = "pitch_shift_432hz" -> "apply_deesser"
    [] s = "apply_deesser"     -> "add_reverb"
    [] s = "add_reverb"        -> "stereo_widen"
    [] s = "stereo_widen"      -> "append"

\* Variant: a failing clip ends the loop and what was built is finalized
PropagatePartial(res, next) == IF res.ok THEN next ELSE "master_limiter"

\* The loop body has no try/except: an exception leaves process_chain and
\* lands in run_pipeline's handler
Propagate(res, next) == IF res.ok THEN next ELSE "except"

\* Variant: the loop stops one clip early
LoopNextEarly(i, n) == IF i + 1 < n THEN "from_wav" ELSE "master_limiter"

\* for path in vocal_paths: ... ; return self.master_limiter(combined)
LoopNext(i, n) == IF i < n THEN "from_wav" ELSE "master_limiter"

Part(kind, clip, n) == [kind |-> kind, clip |-> clip, frames |-> n]

NoParts == << >>

\* Variant: the pause is put in front of the clip
AppendClipGapFirst(prog, audio, clip) ==
  LET gap == Silent(GapMs, SilentDefaultRate)
      piece == Concat(gap, audio)
  IN  [seg |-> Concat(prog.seg, piece),
       parts |-> prog.parts
                 \o << Part("gap", clip, SyncTo(gap, audio, gap).frames),
                       Part("clip", clip, SyncTo(audio, audio, gap).frames) >>]

\* combined += vocal + AudioSegment.silent(duration=2000)
AppendClip(prog, audio, clip) ==
  LET gap == Silent(GapMs, SilentDefaultRate)
      piece == Concat(audio, gap)
  IN  [seg |-> Concat(prog.seg, piece),
       parts |-> prog.parts
                 \o << Part("clip", clip, SyncTo(audio, audio, gap).frames),
                       Part("gap", clip, SyncTo(gap, audio, gap).frames) >>]

Event(clip, stage, input, res) ==
  [clip |-> clip, stage |-> stage, input |-> input, ok |-> res.ok,
   output |-> res.seg]

\* The exception object as it travels: its type, the library call that
\* raised it and the DSPEngine/pipeline function on the traceback
Raise(exc, frame) ==
  [type |-> exc.type, origin |-> exc.origin, frame |-> frame]

NoReport == [logged |-> FALSE, exc_type |-> "none", functions |-> {},
             clips |-> {}]

\* logger.error(f"Pipeline failed: {str(e)}", exc_info=True): the text holds
\* the exception's type and message and the traceback, whose frames name the
\* functions on the stack; `clips` is the set of clip indices the text
\* states, and str(e) and the traceback state none
ErrorReport(e) ==
  [logged |-> TRUE, exc_type |-> e.type,
   functions |-> {"run_pipeline", e.frame, e.origin}, clips |-> {}]

NoArtifacts == [program |-> NoSeg, program_written |-> FALSE,
                video |-> FALSE, metadata |-> FALSE]

Init ==
  /\ vocal_paths \in UNION { [1..n -> ClipFiles] : n \in 0..MaxClips }
  /\ pc = "process_chain"
  /\ idx = 0
  /\ vocal = NoSeg
  /\ combined = [seg |-> NoSeg, parts |-> NoParts]
  /\ trace = << >>
  /\ raised = NotRaised
  /\ report = NoReport
  /\ artifacts = NoArtifacts
  /\ arg = [audio |-> NoSeg, data |-> << >>, sample_rate |-> 0, delay_ms |-> 0]
  /\ op = "idle"
  /\ ret = [res |-> Ok(NoSeg), data |-> << >>]

\* dsp = DSPEngine(); dsp.process_chain(vocal_paths): combined = empty()
EnterChain ==
  /\ pc = "process_chain"
  /\ combined' = [seg |-> EmptySeg, parts |-> NoParts]
  /\ idx' = IF Len(vocal_paths) > 0 THEN 1 ELSE 0
  /\ pc' = LoopNext(0, Len(vocal_paths))
  /\ UNCHANGED <<vocal_paths, vocal, trace, raised, report, artifacts>>
  /\ UNCHANGED fnVars

\* One statement of the loop body: res is what the call returned or raised
RunStage(stage, input, res) ==
  /\ pc = stage
  /\ trace' = Append(trace, Event(idx, stage, input, res))
  /\ pc' = Propagate(res, NextStage(stage))
  /\ vocal' = IF res.ok THEN res.seg ELSE vocal
  /\ raised' = IF res.ok THEN raised ELSE Raise(res.exc, stage)
  /\ UNCHANGED <<vocal_paths, idx, combined, report, artifacts>>
  /\ UNCHANGED fnVars

FromWav ==
  RunStage("from_wav", NoSeg, from_wav(vocal_paths[idx]))

PitchShift ==
  RunStage("pitch_shift_432hz", vocal,
           pitch_shift_432hz(DefaultSampleRate, vocal))

Deesser ==
  RunStage("apply_deesser", vocal, apply_deesser(DefaultSampleRate, vocal))

Reverb ==
  RunStage("add_reverb", vocal, add_reverb(DefaultSampleRate, vocal))

Widen ==
  RunStage("stereo_widen", vocal, stereo_widen(vocal, DefaultDelayMs))

AppendToProgram ==
  /\ pc = "append"
  /\ combined' = AppendClip(combined, vocal, idx)
  /\ trace' = Append(trace, Event(idx, "append", vocal, Ok(vocal)))
  /\ pc' = LoopNext(idx, Len(vocal_paths))
  /\ idx' = IF idx < Len(vocal_paths) THEN idx + 1 ELSE idx
  /\ UNCHANGED <<vocal_paths, vocal, raised, report, artifacts>>
  /\ UNCHANGED fnVars

\* return self.master_limiter(combined)
MasterLimiter ==
  /\ pc = "master_limiter"
  /\ LET res == master_limiter(combined.seg)
     IN  /\ trace' = Append(trace, Event(0, "master_limiter", combined.seg, res))
         /\ pc' = Propagate(res, "export")
         /\ combined' = IF res.ok THEN [combined EXCEPT !.seg = res.seg]
                        ELSE combined
         /\ raised' = IF res.ok THEN raised
                      ELSE Raise(res.exc, "master_limiter")
  /\ UNCHANGED <<vocal_paths, idx, vocal, report, artifacts>>
  /\ UNCHANGED fnVars

\* processed_audio.export("output/temp_processed_audio.wav", format="wav")
Export ==
  /\ pc = "export"
  /\ artifacts' = [artifacts EXCEPT !.program = combined.seg,
                                    !.program_written = TRUE]
  /\ pc' = "render_final_video"
  /\ UNCHANGED <<vocal_paths, idx, vocal, combined, trace, raised, report>>
  /\ UNCHANGED fnVars

\* assembler.render_final_video(...): ffmpeg may fail (e.g. no background)
RenderVideo ==
  /\ pc = "render_final_video"
  /\ \E ok \in BOOLEAN :
       IF ok
       THEN /\ artifacts' = [artifacts EXCEPT !.video = TRUE]
            /\ pc' = "generate_all"
            /\ raised' = raised
       ELSE /\ artifacts' = artifacts
            /\ pc' = "except"
            /\ raised' = Raise([type |-> "Error", origin |-> "ffmpeg"],
                               "render_final_video")
  /\ UNCHANGED <<vocal_paths, idx, vocal, combined, trace, report>>
  /\ UNCHANGED fnVars

\* seo.generate_all(tasks, duration); return video_path, metadata
GenerateMetadata ==
  /\ pc = "generate_all"
  /\ artifacts' = [artifacts EXCEPT !.metadata = TRUE]
  /\ pc' = "done"
  /\ UNCHANGED <<vocal_paths, idx, vocal, combined, trace, raised, report>>
  /\ UNCHANGED fnVars

\* except Exception as e: logger.error(...); raise
Handler ==
  /\ pc = "except"
  /\ report' = ErrorReport(raised)
  /\ pc' = "failed"
  /\ UNCHANGED <<vocal_paths, idx, vocal, combined, trace, raised, artifacts>>
  /\ UNCHANGED fnVars

Next ==
  \/ EnterChain
  \/ FromWav
  \/ PitchShift
  \/ Deesser
  \/ Reverb
  \/ Widen
  \/ AppendToProgram
  \/ MasterLimiter
  \/ Export
  \/ RenderVideo
  \/ GenerateMetadata
  \/ Handler

Spec == Init /\ [][Next]_vars

----------------------------------------------------------------------------
(* stereo_widen on sample values *)

\* The input samples: a ramp, so that every sample is told from its
\* neighbours and from silence
InputData(n) == [k \in 1..n |-> k]

Zeros(n) == [k \in 1..n |-> 0]

\* audioop.lin2lin to a width at least as large
Lin2Lin(x, from, to) == x * 256 ^ (to - from)

\* numpy's cast on assignment into an array of a narrower integer type
CastSample(v, from, to) ==
  IF from <= to THEN v
  ELSE LET m == 256 ^ to
       IN  ((v + m \div 2) % m) - m \div 2

\* samples of silent(delay_ms) + audio, after _sync
WidenRight0Data(audio, data, delay_ms) ==
  LET sil == Silent(delay_ms, audio.frame_rate)
      w   == Max(sil.sample_width, audio.sample_width)
  IN  Zeros(sil.frames * audio.channels)
      \o [k \in 1..Len(data) |-> Lin2Lin(data[k], audio.sample_width, w)]

\* r_samples: the slice's samples, silence where the slice ran short
WidenRightData(audio, data, delay_ms) ==
  LET r0 == WidenRight0Data(audio, data, delay_ms)
      n  == SampleCount(WidenRight(audio, delay_ms))
  IN  [k \in 1..n |-> IF k <= Len(r0) THEN r0[k] ELSE 0]

\* stereo_samples[0::2] = l_samples; stereo_samples[1::2] = r_samples
stereo_samples(audio, data, delay_ms) ==
  LET r == WidenRightData(audio, data, delay_ms)
      rw == WidenRight(audio, delay_ms).sample_width
      min_len == WidenMinLen(audio, delay_ms)
  IN  [k \in 1..(2 * min_len) |->
         IF k % 2 = 1 THEN data[(k + 1) \div 2]
         ELSE CastSample(r[k \div 2], rw, audio.sample_width)]

----------------------------------------------------------------------------
(* add_reverb with wet_mix = 0 on sample values *)

\* 2 ** (8 * sample_width - 1) - 1, the factor of _to_audio_segment
MaxAmplitude(w) == (2 ^ (8 * w - 2) - 1) * 2 + 1

Abs(x) == IF x < 0 THEN -x ELSE x

\* _to_numpy then _to_audio_segment on one sample that the stage left as it
\* was: x / 2**(8w-1) is exact in float32, the product with 2**(8w-1) - 1 is
\* the real x - x / 2**(8w-1), and astype(np.int32) truncates toward zero.
\* For 4-byte samples the quotient is written out (0 < |x| <= 2**31 loses
\* exactly one unit) because 2**31 is beyond the checker's integers.
ScaleToInt32(x, w) ==
  LET a == MaxAmplitude(w)
      mag == IF w < 4 THEN (Abs(x) * a) \div (a + 1)
             ELSE IF x = 0 THEN 0 ELSE Abs(x) - 1
  IN  IF x < 0 THEN -mag ELSE mag

\* value of an unsigned w-byte pattern read as a signed sample
Signed(u, w) == IF u >= (256 ^ w) \div 2 THEN u - 256 ^ w ELSE u

\* data.tobytes() of one int32 (little-endian) read back as samples of
\* sample_width w: 4 / w samples per value
Int32ToSamples(v, w) ==
  IF w >= Int32Bytes THEN << v >>
  ELSE [k \in 1..(Int32Bytes \div w) |->
          Signed((v \div (256 ^ (w * (k - 1)))) % (256 ^ w), w)]

\* (1 - 0) * data + 0 * reverb_data is data; the samples of the returned
\* segment
reverb_dry_samples(audio, data) ==
  LET w == audio.sample_width
      per == IF w >= Int32Bytes THEN 1 ELSE Int32Bytes \div w
  IN  [j \in 1..(per * Len(data)) |->
         Int32ToSamples(ScaleToInt32(data[((j - 1) \div per) + 1], w), w)
           [((j - 1) % per) + 1]]

----------------------------------------------------------------------------
(* master_limiter on sample values *)

\* seg.max: audioop.max, the largest absolute sample, 0 for no samples
Peak(data) ==
  IF Len(data) = 0 THEN 0
  ELSE CHOOSE m \in { Abs(data[i]) : i \in 1..Len(data) } :
         \A j \in 1..Len(data) : Abs(data[j]) <= m

\* pydub normalize: "if peak_sample_val == 0: return seg", else the samples
\* scaled by the needed gain (the scaled values are not modelled)
limiter_samples(data) == IF Peak(data) = 0 THEN data ELSE << >>

----------------------------------------------------------------------------
(* SpecFn: one stage applied to one buffer *)

SampleWidths == {1, 2, 4}
ChannelCounts == {1, 2}
FrameRates == {1000, 2000, 48000}
EngineRates == {8000, 16000, 22050, 48000}
MaxDelayMs == 2
Lengths == (0..MaxSamples) \cup {FilterPadLen, FilterPadLen + 1, 55}

InitFn ==
  /\ \E n \in Lengths, sw \in SampleWidths, ch \in ChannelCounts,
        rate \in FrameRates, sr \in EngineRates, d \in 0..MaxDelayMs :
       \E x \in {InputData(n * ch), Zeros(n * ch)} :
         arg = [audio |-> Seg(n, sw, ch, rate), data |-> x,
                sample_rate |-> sr, delay_ms |-> d]
  /\ op = "none"
  /\ ret = [res |-> Ok(NoSeg), data |-> << >>]
  /\ vocal_paths = << >>
  /\ pc = "idle"
  /\ idx = 0
  /\ vocal = NoSeg
  /\ combined = [seg |-> NoSeg, parts |-> NoParts]
  /\ trace = << >>
  /\ raised = NotRaised
  /\ report = NoReport
  /\ artifacts = NoArtifacts

Apply(name, res, data) ==
  /\ op = "none"
  /\ op' = name
  /\ ret' = [res |-> res, data |-> data]
  /\ UNCHANGED arg
  /\ UNCHANGED chainVars

FnPitchShift ==
  Apply("pitch_shift_432hz", pitch_shift_432hz(arg.sample_rate, arg.audio),
        << >>)

FnDeesser ==
  Apply("apply_deesser", apply_deesser(arg.sample_rate, arg.audio), << >>)

FnReverb ==
  Apply("add_reverb", add_reverb(arg.sample_rate, arg.audio), << >>)

\* add_reverb(audio, wet_mix=0)
FnReverbDry ==
  Apply("add_reverb_dry", add_reverb(arg.sample_rate, arg.audio),
        reverb_dry_samples(arg.audio, arg.data))

FnWiden ==
  Apply("stereo_widen", stereo_widen(arg.audio, arg.delay_ms),
        stereo_samples(arg.audio, arg.data, arg.delay_ms))

FnLimiter ==
  Apply("master_limiter", master_limiter(arg.audio),
        limiter_samples(arg.data))

NextFn ==
  \/ FnPitchShift
  \/ FnDeesser
  \/ FnReverb
  \/ FnReverbDry
  \/ FnWiden
  \/ FnLimiter

SpecFn == InitFn /\ [][NextFn]_vars

\* The model's own consistency: sample data and metadata agree
WidenDataMatchesSeg ==
  op \in {"stereo_widen", "add_reverb_dry"} =>
    Len(ret.data) = ret.res.seg.frames * ret.res.seg.channels

ProgramPartsMatchSeg ==
  pc \in {"from_wav", "master_limiter", "export"} =>
    LET sum[k \in 0..Len(combined.parts)] ==
          IF k = 0 THEN 0 ELSE sum[k - 1] + combined.parts[k].frames
    IN  sum[Len(combined.parts)] = combined.seg.frames

----------------------------------------------------------------------------
(* Properties of process_chain and run_pipeline (Spec) *)

NumClips == Len(vocal_paths)

StageFailures == { k \in 1..Len(trace) : ~trace[k].ok }
LimiterCalls == { k \in 1..Len(trace) : trace[k].stage = "master_limiter" }
AppendsBefore(k) == { j \in 1..(k - 1) : trace[j].stage = "append" }
LoopEvents == { k \in 1..Len(trace) : trace[k].stage # "master_limiter" }

\* The k-th call of a run that follows the loop body for every clip
ExpectedStage(k) == Stages[((k - 1) % Len(Stages)) + 1]
ExpectedClip(k) == ((k - 1) \div Len(Stages)) + 1

\* C1: for every clip the calls are from_wav, pitch shift, de-ess, reverb,
\* widen, append, in this order, once each, clip after clip in list order;
\* each transform is given the buffer the previous call returned; once the
\* loop is left every clip of the list has gone through all of them.
C1_FixedStageOrder ==
  /\ \A k \in LoopEvents :
       /\ trace[k].stage = ExpectedStage(k)
       /\ trace[k].clip = ExpectedClip(k)
       /\ trace[k].clip <= NumClips
       /\ trace[k].stage # "from_wav" =>
            /\ k > 1
            /\ trace[k - 1].ok
            /\ trace[k - 1].clip = trace[k].clip
            /\ trace[k].input = trace[k - 1].output
  /\ \A k \in LimiterCalls : \A j \in LoopEvents : j < k
  /\ pc \in {"master_limiter", "export", "render_final_video", "generate_all",
             "done"} =>
       Cardinality(LoopEvents) = Len(Stages) * NumClips

C1_Witness ==
  /\ pc = "done"
  /\ NumClips >= 2
  /\ Cardinality(LoopEvents) = Len(Stages) * NumClips

\* C2: once a stage call has failed the run is in the handler or has failed,
\* and no Program file, video or metadata exists; a Program file exists only
\* if no call failed, every clip was appended and the limiter has returned.
C2_NoProgramAfterFailure ==
  /\ StageFailures # {} =>
       /\ pc \in {"except", "failed"}
       /\ ~artifacts.program_written
       /\ ~artifacts.video
       /\ ~artifacts.metadata
  /\ artifacts.program_written =>
       /\ StageFailures = {}
       /\ Len(combined.parts) = 2 * NumClips
       /\ \A c \in 1..NumClips :
            \E k \in 1..Len(trace) :
              trace[k].stage = "append" /\ trace[k].clip = c
       /\ Len(trace) > 0
       /\ trace[Len(trace)].stage = "master_limiter"
       /\ trace[Len(trace)].ok
       /\ artifacts.program = trace[Len(trace)].output

C2_Witness ==
  /\ pc = "failed"
  /\ StageFailures # {}
  /\ Len(combined.parts) > 0
  /\ ~artifacts.program_written

\* C3: when a stage call fails for a clip, what the run reports names that
\* clip's index and that stage.
C3_FailureNamesClipAndStage ==
  (pc = "failed" /\ StageFailures # {}) =>
    \A k \in StageFailures :
      /\ trace[k].clip \in report.clips
      /\ trace[k].stage \in report.functions

\* C4: the limiter is called at most once, only on the Program that holds
\* every clip of the list, and a run that completes has called it.
C4_LimiterOnceAtEnd ==
  /\ Cardinality(LimiterCalls) <= 1
  /\ \A k \in LimiterCalls :
       /\ { trace[j].clip : j \in AppendsBefore(k) } = 1..NumClips
       /\ Cardinality(AppendsBefore(k)) = NumClips
       /\ trace[k].input = combined.seg
       /\ Len(combined.parts) = 2 * NumClips
  /\ pc = "done" => Cardinality(LimiterCalls) = 1

C4_Witness ==
  /\ pc = "export"
  /\ NumClips >= 2
  /\ Cardinality(LimiterCalls) = 1

\* The widen call of clip c in a history that follows the loop body
WidenEvent(c) == trace[Len(Stages) * (c - 1) + 5]

\* C5: the Program is, at every moment, clip 1, gap, clip 2, gap, ... in
\* list order: the part of clip c is what widen returned for clip c, it is
\* followed by one gap, every gap is the same 2000 ms of silence, nothing
\* else is in the Program, and this is what the limiter is given.
C5_ProgramLayout ==
  /\ \A j \in 1..Len(combined.parts) :
       LET part == combined.parts[j]
           c == (j + 1) \div 2
       IN  /\ part.clip = c
           /\ IF j % 2 = 1
              THEN /\ part.kind = "clip"
                   /\ WidenEvent(c).stage = "stereo_widen"
                   /\ WidenEvent(c).clip = c
                   /\ part.frames = WidenEvent(c).output.frames
              ELSE /\ part.kind = "gap"
                   /\ part.frames = combined.parts[2].frames
                   /\ LenMs(Seg(part.frames, combined.seg.sample_width,
                                combined.seg.channels,
                                combined.seg.frame_rate)) = GapMs
  /\ Len(combined.parts) = 2 * Cardinality(AppendsBefore(Len(trace) + 1))
  /\ \A k \in LimiterCalls : Len(combined.parts) = 2 * NumClips

C5_Witness ==
  /\ pc = "master_limiter"
  /\ NumClips >= 2
  /\ Len(combined.parts) = 2 * NumClips

\* Duration of a file or buffer in milliseconds, to the nearest millisecond
SumFileMs ==
  LET sum[k \in 0..NumClips] ==
        IF k = 0 THEN 0
        ELSE sum[k - 1] + LenMs(Seg(vocal_paths[k].frames, 1, 1,
                                    vocal_paths[k].frame_rate))
  IN  sum[NumClips]

\* C6: the Program that leaves process_chain lasts as long as the input
\* clips together plus one gap per clip.
C6_DurationIsSumPlusGaps ==
  pc = "export" => LenMs(combined.seg) = SumFileMs + NumClips * GapMs

----------------------------------------------------------------------------
(* Properties of the single stages (SpecFn) *)

\* C7: the resampler returns floor(L * 432 / 440) samples at the engine's
\* rate for an input of L samples, and an empty buffer, not an error, for
\* L = 0.
C7_ResamplerLength ==
  op = "pitch_shift_432hz" =>
    /\ ret.res.ok
    /\ SampleCount(ret.res.seg) = (SampleCount(arg.audio) * 432) \div 440
    /\ ret.res.seg.frame_rate = arg.sample_rate

DelayFrames == Silent(arg.delay_ms, arg.audio.frame_rate).frames

\* C8: for a mono input of n frames and a delay of d frames, 0 <= d < n,
\* widen returns n stereo frames with left[i] = x[i], right[i] = 0 for
\* i <= d and right[i] = x[i - d] after (frames counted from 1).
C8_WidenHaas ==
  (op = "stereo_widen" /\ arg.audio.channels = 1
     /\ DelayFrames < arg.audio.frames) =>
    /\ ret.res.ok
    /\ ret.res.seg.channels = 2
    /\ ret.res.seg.frames = arg.audio.frames
    /\ Len(ret.data) = 2 * arg.audio.frames
    /\ \A i \in 1..arg.audio.frames :
         /\ ret.data[2 * i - 1] = arg.data[i]
         /\ ret.data[2 * i] = IF i <= DelayFrames THEN 0
                              ELSE arg.data[i - DelayFrames]

\* C9: widen applied to a stereo buffer fails with
\* UnsupportedChannelLayoutError and returns no buffer.
C9_StereoRejected ==
  (op = "stereo_widen" /\ arg.audio.channels = 2) =>
    /\ ~ret.res.ok
    /\ ret.res.exc.type = "UnsupportedChannelLayoutError"
    /\ ret.res.seg = NoSeg
    /\ ret.data = << >>

\* The upper band edge is at or above Nyquist
HighAtOrAboveNyquist == 2 * BandHighHz >= arg.sample_rate

C11_ReverbIdentity ==
  op = "add_reverb_dry" =>
    /\ ret.res.ok
    /\ Len(ret.data) = Len(arg.data)
    /\ \A i \in 1..Len(arg.data) : ret.data[i] = arg.data[i]

\* C12: the normalizer fails with SilentBufferError, and returns no buffer,
\* whenever the peak of its input is zero (all zeros, or no samples at all
\* as for the Program of an empty clip list).
C12_SilentBufferRejected ==
  (op = "master_limiter" /\ Peak(arg.data) = 0) =>
    /\ ~ret.res.ok
    /\ ret.res.exc.type = "SilentBufferError"
    /\ ret.res.seg = NoSeg

\* len(seg._data): frame count times frame width
ByteLength(seg) == seg.frames * seg.channels * seg.sample_width

\* C13: for every sample width and channel count the de-esser and the
\* reverb return as many channels and samples as they were given, the
\* resampler returns as many channels as it was given, only the widener
\* changes the channel count (1 to 2), and the returned bytes are sample
\* count * channel count * sample width.
C13_BufferConsistency ==
  /\ (op \in {"apply_deesser", "add_reverb", "add_reverb_dry"}
        /\ ret.res.ok) =>
       /\ ret.res.seg.channels = arg.audio.channels
       /\ ret.res.seg.frames = arg.audio.frames
       /\ ret.res.seg.sample_width = arg.audio.sample_width
       /\ ByteLength(ret.res.seg) = ByteLength(arg.audio)
  /\ (op = "pitch_shift_432hz" /\ ret.res.ok) =>
       /\ ret.res.seg.channels = arg.audio.channels
       /\ ByteLength(ret.res.seg)
            = NumSamples(SampleCount(arg.audio), arg.sample_rate)
                * arg.audio.sample_width
  /\ (op = "master_limiter" /\ ret.res.ok) =>
       ret.res.seg.channels = arg.audio.channels
  /\ (op = "stereo_widen" /\ arg.audio.channels = 1 /\ ret.res.ok) =>
       ret.res.seg.channels = 2

====
